---- MODULE Spec2Model ----
(***************************************************************************)
(* A model of the templator package: Registry.Get, Handler.Execute and the *)
(* template field validator, as the code under src/ implements them.       *)
(*                                                                         *)
(* Registry.Get is the version of src/templator.go lines 187-206: it takes *)
(* the registry's read lock, parses basePath/name.html with the template   *)
(* engine, validates the fields when validation is configured and returns  *)
(* a freshly constructed Handler.  The Registry struct has no cache field. *)
(* The call validateTemplateFields(...) at line 197 is resolved to the     *)
(* current definition in src/template_validator.go (lines 101-115), which  *)
(* scans the template's source text.                                       *)
(***************************************************************************)
EXTENDS Integers, Sequences, FiniteSets, TLC

(***************************************************************************)
(* Bounds of the model.                                                    *)
(***************************************************************************)
NumProcs == 2      \* goroutines calling into the registry
MaxCalls == 3      \* Get calls made in all, by all goroutines together
MaxFsOps == 1      \* changes made to the backing filesystem by its owner
MaxPathLen == 2    \* segments of a field path given to validateField alone
MaxItems == 3      \* items of a source given to validateTemplateFields alone

Procs == 1 .. NumProcs

(***************************************************************************)
(* Template source text.  A source is a sequence of lexical items; an item *)
(* is a run of literal text or one {{...}} action.  A field path is kept   *)
(* as the string the validator sees: a sequence of identifier chunks and   *)
(* "." separators, e.g. <<"Title", ".", "Foo">> for Title.Foo.             *)
(***************************************************************************)
Text(s)     == [k |-> "text",  p |-> <<s>>]     \* literal text
Field(path) == [k |-> "field", p |-> path]      \* {{.Path}}
If(path)    == [k |-> "if",    p |-> path]      \* {{if .Path}}
End         == [k |-> "end",   p |-> <<>>]      \* {{end}}
Call(path, fn) == [k |-> "call", p |-> path, fn |-> fn]   \* {{.Path | fn}}
Range(path) == [k |-> "range", p |-> path]  \* {{range .Path}}

\* src/templator_test.go:18 testHTMLTemplate, reduced to its items
testHTMLTemplate ==
    << Text("<title>"), Field(<<"Title">>), Text("</title><h1>"),
       Field(<<"Content">>), Text("</h1>") >>
\* src/templator_test.go:302  "{{.InvalidSyntax}}{{end}}"
SrcInvalidSyntax == << Field(<<"InvalidSyntax">>), End >>
\* src/templator_test.go:305  "{{.NonexistentField}}"
SrcExecutionError == << Field(<<"NonexistentField">>) >>
\* src/templator_test.go:551  "{{if .SubTitle}}{{.SubTitle}}{{end}}"
SrcIfSubTitle == << If(<<"SubTitle">>), Field(<<"SubTitle">>), End >>
\* a path that continues through a string field: "{{.Title.Foo}}"
SrcThroughString == << Field(<<"Title", ".", "Foo">>) >>
\* src/templator_test.go:387  "{{.Title | upper}}"
SrcWithFunc == << Call(<<"Title">>, "upper") >>
\* src/example_test.go:17-19  templates/about/team.html, reduced
SrcTeam == << Text("<h2>"), Field(<<"Title">>), Text("</h2>") >>
\* src/templator_test.go:459-463  the template under custom/path
SrcCustom == << Text("custom: "), Field(<<"Title">>) >>

NoFile == << [k |-> "nofile", p |-> <<>>] >>
Unread == << [k |-> "unread", p |-> <<>>] >>

(***************************************************************************)
(* Data types as reflect.Type sees them.                                   *)
(***************************************************************************)
NilType == "nil"
Types == {"ComplexData", "string", "*string", "*ComplexData",
          "**ComplexData", "Article", "Person", "*Person"}

Kind(t) ==
    CASE t \in {"ComplexData", "Article", "Person", "Page", "Item"} -> "struct"
      [] t = "string" -> "string"
      [] t = "[]Item" -> "slice"
      [] t \in {"*string", "*ComplexData", "**ComplexData", "*Person"} -> "ptr"

Elem(t) ==
    CASE t = "*string"       -> "string"
      [] t = "*ComplexData"  -> "ComplexData"
      [] t = "**ComplexData" -> "*ComplexData"
      [] t = "*Person"       -> "Person"
      [] t = "[]Item"        -> "Item"

\* src/templator_test.go:520 ComplexData; Article is a record with a nested
\* record and a pointer to one.
StructFields(t) ==
    CASE t = "ComplexData" ->
           [Title |-> "string", Content |-> "string", SubTitle |-> "*string"]
      [] t = "Article" ->
           [Title |-> "string", Author |-> "Person", Editor |-> "*Person"]
      [] t = "Person" -> [Name |-> "string"]
      [] t = "Page" -> [Title |-> "string", Items |-> "[]Item"]
      [] t = "Item" -> [Name |-> "string"]

TypeName(t) == IF Kind(t) = "ptr" THEN "" ELSE t

(***************************************************************************)
(* Errors.  Every error value is a record of the same shape.               *)
(***************************************************************************)
NoErr == [type |-> "nil", TemplateName |-> "", FieldPath |-> <<>>,
          msg |-> "", arg |-> ""]
ErrorString(msg, arg) ==
    [type |-> "errorString", TemplateName |-> "", FieldPath |-> <<>>,
     msg |-> msg, arg |-> arg]
MakeValidationError(name, field, err) ==
    [type |-> "ValidationError", TemplateName |-> name, FieldPath |-> field,
     msg |-> err.msg, arg |-> err.arg]
PanicValue(msg) ==
    [type |-> "panic", TemplateName |-> "", FieldPath |-> <<>>,
     msg |-> msg, arg |-> ""]

(***************************************************************************)
(* strings.Split(fieldPath, "."): the segments between the separators; an  *)
(* empty segment is the empty string.                                      *)
(***************************************************************************)
RECURSIVE SplitFrom(_, _, _)
SplitFrom(s, i, cur) ==
    IF i > Len(s) THEN <<cur>>
    ELSE IF s[i] = "." THEN <<cur>> \o SplitFrom(s, i + 1, "")
    ELSE SplitFrom(s, i + 1, cur \o s[i])

Split(fieldPath) == SplitFrom(fieldPath, 1, "")

(***************************************************************************)
(* validateField (src/template_validator.go:154-181).  The result is the   *)
(* returned error, NoErr for nil, or a panic value: FieldByName panics     *)
(* when its receiver is not a struct type.                                 *)
(***************************************************************************)
\* Variant: a pointer type is never replaced by its element type.
Unwrap_Never(t) == t

Unwrap(t) == IF Kind(t) = "ptr" THEN Elem(t) ELSE t

\* Variant: the error names the type the field was declared with, pointer
\* included, rather than the type the segment was looked up in.
RECURSIVE WalkParts_NamesDeclared(_, _, _)
WalkParts_NamesDeclared(current, parts, i) ==
    IF i > Len(parts) THEN NoErr
    ELSE IF Kind(Unwrap(current)) # "struct"
         THEN PanicValue("reflect: FieldByName of non-struct type")
    ELSE IF parts[i] \notin DOMAIN StructFields(Unwrap(current))
         THEN ErrorString("field not found in type",
                          parts[i] \o " in " \o current)
    ELSE WalkParts_NamesDeclared(StructFields(Unwrap(current))[parts[i]],
                                 parts, i + 1)

RECURSIVE WalkParts(_, _, _)
WalkParts(current, parts, i) ==
    IF i > Len(parts) THEN NoErr
    ELSE IF Kind(current) # "struct"
         THEN PanicValue("reflect: FieldByName of non-struct type")
    ELSE IF parts[i] \notin DOMAIN StructFields(current)
         THEN ErrorString("field not found in type",
                          parts[i] \o " in " \o TypeName(current))
    ELSE WalkParts(Unwrap(StructFields(current)[parts[i]]), parts, i + 1)

\* Variant: the kind of the root type is not checked.
validateField_NoRootCheck(typ, fieldPath) ==
    IF typ = NilType THEN ErrorString("nil type", "")
    ELSE WalkParts(Unwrap(typ), Split(fieldPath), 1)

validateField(typ, fieldPath) ==
    IF typ = NilType THEN ErrorString("nil type", "")
    ELSE IF Kind(Unwrap(typ)) # "struct"
         THEN ErrorString("expected struct type, got", Kind(Unwrap(typ)))
    ELSE WalkParts(Unwrap(typ), Split(fieldPath), 1)

(***************************************************************************)
(* extractTemplateFields and uniqueFields                                  *)
(* (src/template_validator.go:117-151).  fieldPattern matches the          *)
(* {{.Path}} items and ifPattern the {{if .Path}} items of the source.     *)
(***************************************************************************)
RECURSIVE Matches(_, _)
Matches(content, kind) ==
    IF content = <<>> THEN <<>>
    ELSE (IF Head(content).k = kind THEN <<Head(content).p>> ELSE <<>>)
         \o Matches(Tail(content), kind)

\* Variant: a field is dropped only when it repeats the one kept last.
RECURSIVE UniqueFrom_AdjacentOnly(_, _, _)
UniqueFrom_AdjacentOnly(fields, i, unique) ==
    IF i > Len(fields) THEN unique
    ELSE IF unique # <<>> /\ unique[Len(unique)] = fields[i]
         THEN UniqueFrom_AdjacentOnly(fields, i + 1, unique)
    ELSE UniqueFrom_AdjacentOnly(fields, i + 1, Append(unique, fields[i]))

RECURSIVE UniqueFrom(_, _, _)
UniqueFrom(fields, i, unique) ==
    IF i > Len(fields) THEN unique
    ELSE IF \E j \in 1 .. Len(unique) : unique[j] = fields[i]
         THEN UniqueFrom(fields, i + 1, unique)
    ELSE UniqueFrom(fields, i + 1, Append(unique, fields[i]))

uniqueFields(fields) == UniqueFrom(fields, 1, <<>>)

extractTemplateFields(content) ==
    uniqueFields(Matches(content, "field") \o Matches(content, "if"))

(***************************************************************************)
(* validateTemplateFields (src/template_validator.go:101-115): the first   *)
(* field that fails decides the result.                                    *)
(***************************************************************************)
\* Variant: every field is validated, and the last one that fails decides
\* the result.
RECURSIVE ValidateFrom_ReportsLast(_, _, _, _)
ValidateFrom_ReportsLast(name, typ, fields, i) ==
    IF i > Len(fields) THEN NoErr
    ELSE LET err  == validateField(typ, fields[i])
             rest == ValidateFrom_ReportsLast(name, typ, fields, i + 1)
         IN  IF rest # NoErr THEN rest
             ELSE IF err.type = "panic" THEN err
             ELSE IF err # NoErr THEN MakeValidationError(name, fields[i], err)
             ELSE NoErr

RECURSIVE ValidateFrom(_, _, _, _)
ValidateFrom(name, typ, fields, i) ==
    IF i > Len(fields) THEN NoErr
    ELSE LET err == validateField(typ, fields[i]) IN
         IF err.type = "panic" THEN err
         ELSE IF err # NoErr THEN MakeValidationError(name, fields[i], err)
         ELSE ValidateFrom(name, typ, fields, i + 1)

\* Variant: a source in which nothing is found is rejected.
validateTemplateFields_EmptyIsInvalid(name, content, typ) ==
    IF extractTemplateFields(content) = <<>>
    THEN MakeValidationError(name, <<>>, ErrorString("no fields", ""))
    ELSE ValidateFrom(name, typ, extractTemplateFields(content), 1)

validateTemplateFields(name, content, typ) ==
    ValidateFrom(name, typ, extractTemplateFields(content), 1)

(***************************************************************************)
(* The template engine, as Get and Execute use it.                         *)
(* template.ParseFS (src/templator.go:191) fails when the pattern matches  *)
(* no file and when the source does not parse: an {{end}} without an open  *)
(* block, or a block left open.                                            *)
(***************************************************************************)
RECURSIVE DepthOK(_, _, _)
DepthOK(content, i, depth) ==
    IF i > Len(content) THEN depth = 0
    ELSE IF content[i].k \in {"if", "range"}
         THEN DepthOK(content, i + 1, depth + 1)
    ELSE IF content[i].k = "end"
         THEN depth > 0 /\ DepthOK(content, i + 1, depth - 1)
    ELSE DepthOK(content, i + 1, depth)

SyntaxOK(content) == DepthOK(content, 1, 0)

\* The functions a pipeline may call when the source is parsed with no
\* function map added: the engine's built-in ones.
Builtins == {"html", "print"}
FuncsDefined(content) ==
    \A i \in 1 .. Len(content) :
        content[i].k = "call" => content[i].fn \in Builtins

\* The error of parsing one file.
FileErr(content) ==
    IF ~SyntaxOK(content) THEN ErrorString("template: parse error", "")
    ELSE IF ~FuncsDefined(content)
    THEN ErrorString("template: function not defined", "")
    ELSE NoErr

\* The files are read and parsed one after the other; the first one that
\* fails ends the parsing.  FirstBad is its index, 0 when there is none.
FirstBad(contents) ==
    LET bad == { i \in 1 .. Len(contents) : FileErr(contents[i]) # NoErr }
    IN  IF bad = {} THEN 0
        ELSE CHOOSE i \in bad : \A j \in bad : i <= j

\* Variant: a pattern that matches no file gives an empty template.
ParseFS_NoFilesIsEmpty(contents, pattern) ==
    IF contents = <<>> THEN [tmpl |-> <<>>, err |-> NoErr]
    ELSE IF FirstBad(contents) # 0
    THEN [tmpl |-> NoFile, err |-> FileErr(contents[FirstBad(contents)])]
    ELSE [tmpl |-> contents[1], err |-> NoErr]

\* contents are the sources of the files the pattern matches, in the order
\* of their names; the template returned is that of the first file.
ParseFS(contents, pattern) ==
    IF contents = <<>>
    THEN [tmpl |-> NoFile,
          err |-> ErrorString("template: pattern matches no files", pattern)]
    ELSE IF FirstBad(contents) # 0
    THEN [tmpl |-> NoFile, err |-> FileErr(contents[FirstBad(contents)])]
    ELSE [tmpl |-> contents[1], err |-> NoErr]

(***************************************************************************)
(* Values of the bound data type.  A nil pointer is NilPtr.                *)
(***************************************************************************)
NilPtr == "<nil>"

DataOf(p) ==
    [Title    |-> "Title " \o ToString(p),
     Content  |-> "Content " \o ToString(p),
     SubTitle |-> IF p % 2 = 0 THEN NilPtr ELSE "Sub " \o ToString(p)]

ExecError(msg, arg) ==
    [type |-> "execError", TemplateName |-> "", FieldPath |-> <<>>,
     msg |-> msg, arg |-> arg]

\* The engine's evaluation of .Path on a ComplexData value: the value, or
\* the error the engine reports.
EvalField(path, data) ==
    LET parts == Split(path) IN
    IF parts[1] \notin DOMAIN data
    THEN [val |-> "", err |-> ExecError("can't evaluate field", parts[1])]
    ELSE IF Len(parts) = 1 THEN [val |-> data[parts[1]], err |-> NoErr]
    ELSE IF data[parts[1]] = NilPtr
    THEN [val |-> "", err |-> ExecError("nil pointer evaluating", parts[2])]
    ELSE [val |-> "", err |-> ExecError("can't evaluate field", parts[2])]

Truth(val) == val # NilPtr /\ val # ""

Printed(val) == IF val = NilPtr THEN "&lt;nil&gt;" ELSE val

\* tmpl.Execute(w, data) (src/templator.go:211): the items are rendered in
\* order and written to w as they are produced; the first error ends the
\* rendering.  skip counts the open blocks of a false {{if}} being skipped.
RECURSIVE RenderFrom(_, _, _, _, _)
RenderFrom(content, i, data, out, skip) ==
    IF i > Len(content) THEN [out |-> out, err |-> NoErr]
    ELSE LET it == content[i] IN
         IF skip > 0
         THEN RenderFrom(content, i + 1, data, out,
                         IF it.k = "if" THEN skip + 1
                         ELSE IF it.k = "end" THEN skip - 1 ELSE skip)
         ELSE IF it.k = "text"
         THEN RenderFrom(content, i + 1, data, Append(out, it.p[1]), 0)
         ELSE IF it.k = "end"
         THEN RenderFrom(content, i + 1, data, out, 0)
         ELSE LET v == EvalField(it.p, data) IN
              IF v.err # NoErr THEN [out |-> out, err |-> v.err]
              ELSE IF it.k = "if"
              THEN RenderFrom(content, i + 1, data, out,
                              IF Truth(v.val) THEN 0 ELSE 1)
              ELSE RenderFrom(content, i + 1, data,
                              Append(out, Printed(v.val)), 0)

\* Variant: every rendering uses the data of one goroutine.
Render_SharedData(content, data) ==
    RenderFrom(content, 1, DataOf(1), <<>>, 0)

Render(content, data) == RenderFrom(content, 1, data, <<>>, 0)

\* One step of tmpl.Execute at item i: the bytes the engine hands to the
\* writer (none or one chunk), the error of the evaluation, and the new
\* count of skipped blocks.
EngineStep(content, i, data, skip) ==
    LET it == content[i] IN
    IF skip > 0
    THEN [bytes |-> <<>>, err |-> NoErr,
          skip |-> IF it.k = "if" THEN skip + 1
                   ELSE IF it.k = "end" THEN skip - 1 ELSE skip]
    ELSE IF it.k = "text"
    THEN [bytes |-> <<it.p[1]>>, err |-> NoErr, skip |-> 0]
    ELSE IF it.k = "end"
    THEN [bytes |-> <<>>, err |-> NoErr, skip |-> 0]
    ELSE LET v == EvalField(it.p, data) IN
         IF v.err # NoErr THEN [bytes |-> <<>>, err |-> v.err, skip |-> 0]
         ELSE IF it.k = "if"
         THEN [bytes |-> <<>>, err |-> NoErr,
               skip |-> IF Truth(v.val) THEN 0 ELSE 1]
         ELSE [bytes |-> <<Printed(v.val)>>, err |-> NoErr, skip |-> 0]

(***************************************************************************)
(* Contexts and writers of the callers of Execute.  A context is nil,      *)
(* active, or done with its cause; cancel() on a context that is already   *)
(* done changes nothing.                                                   *)
(***************************************************************************)
Contexts == {"nil", "active", "canceled", "deadline"}
Done(ctx) == ctx \in {"canceled", "deadline"}
Cancel(ctx) == IF ctx = "active" THEN "canceled" ELSE ctx

\* io.ErrClosedPipe
ErrClosedPipe == ErrorString("io: read/write on closed pipe", "")

\* bytes.Buffer, cancelOnFirstWriteWriter and cancelAndFailWriter
\* (src/unnamed/part_008:172-195).
Writers == {"buffer", "cancelOnFirstWrite", "cancelAndFail"}

\* The writers a caller can pass with a context: the two cancelling writers
\* hold the cancel function of a context made for the call.
WritersFor(ctx) == IF ctx = "active" THEN Writers ELSE {"buffer"}

\* Variant: the buffer drops what it is given.
Write_Drops(writer, ctx, out, bytes) ==
    [out |-> out, ctx |-> ctx, err |-> NoErr]

\* w.Write(bytes): what the sink holds afterwards, the state of the
\* caller's context afterwards, and the error returned to the engine.
Write(writer, ctx, out, bytes) ==
    CASE writer = "buffer" ->
           [out |-> Append(out, bytes), ctx |-> ctx, err |-> NoErr]
      [] writer = "cancelOnFirstWrite" ->
           [out |-> Append(out, bytes), ctx |-> Cancel(ctx), err |-> NoErr]
      [] writer = "cancelAndFail" ->
           [out |-> out, ctx |-> Cancel(ctx), err |-> ErrClosedPipe]

\* template.FuncMap values, by the names they define
\* (src/unnamed/part_006:225-251).
FuncMaps == { {"upper"}, {"lower"}, {"upper", "lower"} }

\* A value of the data type as the examples use it (src/example_test.go:32-35).
Welcome == [Title |-> "Welcome", Content |-> "Hello, World!", SubTitle |-> NilPtr]

(***************************************************************************)
(* The registry, its callers and the backing filesystem.                   *)
(***************************************************************************)
DefaultTemplateDir == "templates"

Names == {"valid", "invalid", "execution_error", "through_string",
          "ifsub", "nonexistent"}

\* filepath.Join(r.config.path, name+".html") (src/templator.go:191)
FilePath(base, name) == base \o "/" \o name \o ".html"

\* The files of the test filesystems (src/templator_test.go:297-310, 551).
InitialContent(name) ==
    CASE name = "valid"           -> testHTMLTemplate
      [] name = "invalid"         -> SrcInvalidSyntax
      [] name = "execution_error" -> SrcExecutionError
      [] name = "through_string"  -> SrcThroughString
      [] name = "ifsub"           -> SrcIfSubTitle
      [] OTHER                    -> NoFile

\* All names Get is called with: those above, a nested name, a template
\* that calls a function, and a name that is a glob pattern.
AllNames == Names \cup {"about/team", "withfunc", "*"}

\* The names of the files a directory can hold, in the order fs.Glob
\* returns them, and those of them that lie directly in the directory.
NameOrder == << "about/team", "execution_error", "ifsub", "invalid",
               "nonexistent", "through_string", "valid", "withfunc" >>
Flat(n) == n # "about/team"

\* The directories of the test filesystems (src/templator_test.go:455-476,
\* 191-196).
Dirs == {DefaultTemplateDir, "custom/path", "non-existent"}

InitialFile(dir, name) ==
    IF dir = DefaultTemplateDir
    THEN CASE name = "about/team" -> SrcTeam
           [] name = "withfunc"   -> SrcWithFunc
           [] OTHER               -> InitialContent(name)
    ELSE IF dir = "custom/path" /\ name = "valid" THEN SrcCustom
    ELSE NoFile

\* fs.Glob inside template.ParseFS (src/templator.go:191): the paths the
\* pattern filepath.Join(base, name+".html") can match, in order.  A name
\* without metacharacters matches the one file of that path; "*" matches
\* every .html file directly in base.
RECURSIVE GlobFrom(_, _, _)
GlobFrom(base, name, i) ==
    IF i > Len(NameOrder) THEN <<>>
    ELSE (IF (name = "*" /\ Flat(NameOrder[i])) \/ name = NameOrder[i]
          THEN <<FilePath(base, NameOrder[i])>> ELSE <<>>)
         \o GlobFrom(base, name, i + 1)

Glob(base, name) == GlobFrom(base, name, 1)

\* Options of NewRegistry (src/templator.go:131-147).
WithFieldValidation(model) ==
    [opt |-> "WithFieldValidation", model |-> model]
WithTemplatesPath(path) ==
    [opt |-> "WithTemplatesPath", path |-> path]
\* The option the tests pass (src/templator_test.go:398, 512-514); it has
\* no code in the source.  It stores the map in config.funcMap.
WithTemplateFuncs(funcMap) ==
    [opt |-> "WithTemplateFuncs", funcMap |-> funcMap]

\* Variant: the path option is ignored.
ApplyOption_IgnoresPath(cfg, o) ==
    IF o.opt = "WithFieldValidation"
    THEN [cfg EXCEPT !.validateFields = TRUE, !.validationModel = o.model]
    ELSE IF o.opt = "WithTemplateFuncs"
    THEN [cfg EXCEPT !.funcMap = o.funcMap]
    ELSE cfg

ApplyOption(cfg, o) ==
    IF o.opt = "WithFieldValidation"
    THEN [cfg EXCEPT !.validateFields = TRUE, !.validationModel = o.model]
    ELSE IF o.opt = "WithTemplatesPath"
    THEN (IF o.path # "" THEN [cfg EXCEPT !.path = o.path] ELSE cfg)
    ELSE IF o.opt = "WithTemplateFuncs"
    THEN [cfg EXCEPT !.funcMap = o.funcMap]
    ELSE cfg

RECURSIVE ApplyOptions(_, _)
ApplyOptions(cfg, opts) ==
    IF opts = <<>> THEN cfg
    ELSE ApplyOptions(ApplyOption(cfg, Head(opts)), Tail(opts))

\* NewRegistry (src/templator.go:171-182).  T is ComplexData; the zero
\* value of the validation model has T's type.
NewRegistry(opts) ==
    ApplyOptions([path |-> DefaultTemplateDir, validateFields |-> FALSE,
                  validationModel |-> "ComplexData", funcMap |-> {}], opts)

\* return reg, nil (src/templator.go:181): the error of NewRegistry.
NewRegistryErr(opts) == NoErr

OptionLists == { <<>>, <<WithFieldValidation("ComplexData")>> }

\* The option lists of TestRegistry_Options, TestNewRegistry and
\* TestHandler_WithFuncs (src/templator_test.go:448-476, 191-196, 398).
MoreOptionLists ==
    OptionLists \cup
    { <<WithTemplatesPath("custom/path")>>, <<WithTemplatesPath("")>>,
      <<WithTemplatesPath("non-existent")>>,
      <<WithTemplatesPath("custom/path"), WithTemplatesPath("")>>,
      <<WithTemplateFuncs({"upper"})>> }

\* Handlers are heap objects; the Handler made by the c-th Get of goroutine
\* p has the address <<p, c>>.
Nil == <<0, 0>>
HandlerIds == Procs \X (1 .. MaxCalls)
NoHandler == [tmpl |-> NoFile, funcs |-> {}, reg |-> "nil"]
Registry == "registry"

\* &Handler[T]{tmpl: tmpl, reg: r} (src/templator.go:202-205).  funcs is
\* the set of functions added to the compiled template after parsing.
NewHandler(tmpl) == [tmpl |-> tmpl, funcs |-> {}, reg |-> Registry]

\* The values a Get call returns.
GetReturn(h, err) == [h |-> h, err |-> err]
NoReturn == [h |-> Nil, err |-> NoErr]
NoPrev == [name |-> "", h |-> Nil, err |-> NoErr]

VARIABLES
    fs,        \* the backing filesystem: file path -> source, or NoFile
    fsOps,     \* number of changes made to the filesystem so far
    config,    \* Registry.config
    mu,        \* Registry.mu: number of readers, and whether a writer holds it
    handlers,  \* the heap of Handlers: address -> Handler, or NoHandler
    pc,        \* where each goroutine is
    arg,       \* the name argument of the goroutine's current or last Get
    tmpl,      \* Get's local variable tmpl
    src,       \* what the file held when the goroutine's current or last
               \* Get read it; Unread before the read
    ret,       \* what the goroutine's last Get returned
    prev,      \* name and result of the Get the goroutine made before that
    calls,     \* number of Get calls the goroutine has made
    sink,      \* the writer of the Execute that followed the last Get
    execErr,   \* what that Execute returned
    reads,     \* per name: how often the filesystem was read for it
    compiles,  \* per name: how often its source was handed to the engine
    conc,      \* per goroutine: the goroutines whose Get of the same name
               \* was in flight at some time during its current or last Get
    ex,        \* per goroutine: the Execute call it is in (context, writer,
               \* position of the engine in the template)
    wf,        \* per goroutine: its last WithFuncs call
    vf,        \* a call of validateField: its arguments and its result
    options,   \* the options NewRegistry was called with
    opened,    \* per goroutine: the files its current or last Get read
    nw,        \* a call of New: its filesystem, options and result
    vt         \* a call of validateTemplateFields: arguments and result

vars == <<fs, fsOps, config, mu, handlers, pc, arg, tmpl, src, ret, prev,
          calls, sink, execErr, reads, compiles, conc, ex, wf, vf,
          options, opened, nw, vt>>

\* No Execute, WithFuncs or validateField call has been made.
ExIdle == [h |-> Nil, ctx0 |-> "none", ctx |-> "none", writer |-> "none",
           data |-> <<>>, pos |-> 0, skip |-> 0, late |-> FALSE,
           engine |-> FALSE]
WfIdle == [recv |-> Nil, funcMap |-> {}, before |-> NoHandler, res |-> Nil]
VfIdle == [pc |-> "idle", typ |-> NilType, path |-> <<>>, res |-> NoErr]
NwIdle == [pc |-> "idle"]
VtIdle == [pc |-> "idle"]

RECURSIVE SumCalls(_)
SumCalls(n) == IF n = 0 THEN 0 ELSE calls[n] + SumCalls(n - 1)
TotalCalls == SumCalls(NumProcs)

InGet(p) == pc[p] \in {"get_parse", "get_validate"}
Paths == { FilePath(DefaultTemplateDir, n) : n \in Names }
FileNames == { NameOrder[i] : i \in 1 .. Len(NameOrder) }
AllPaths == { FilePath(d, n) : d \in Dirs, n \in FileNames }

\* The files of the backing filesystem before anyone changes them.
InitialFs ==
    [f \in AllPaths |->
       LET dn == CHOOSE x \in Dirs \X FileNames : FilePath(x[1], x[2]) = f
       IN  InitialFile(dn[1], dn[2])]

\* The state NewRegistry(fsys, opts...) leaves.
RegistryStateOn(fsys, opts) ==
    /\ fs = fsys
    /\ fsOps = 0
    /\ options = opts
    /\ config = NewRegistry(opts)
    /\ mu = [readers |-> 0, writer |-> FALSE]
    /\ handlers = [id \in HandlerIds |-> NoHandler]
    /\ pc = [p \in Procs |-> "idle"]
    /\ arg = [p \in Procs |-> ""]
    /\ tmpl = [p \in Procs |-> NoFile]
    /\ src = [p \in Procs |-> Unread]
    /\ ret = [p \in Procs |-> NoReturn]
    /\ prev = [p \in Procs |-> NoPrev]
    /\ calls = [p \in Procs |-> 0]
    /\ sink = [p \in Procs |-> <<>>]
    /\ execErr = [p \in Procs |-> NoErr]
    /\ reads = [n \in AllNames |-> 0]
    /\ compiles = [n \in AllNames |-> 0]
    /\ conc = [p \in Procs |-> {}]
    /\ opened = [p \in Procs |-> {}]

RegistryState(opts) == RegistryStateOn(InitialFs, opts)

InitRegistry == \E opts \in OptionLists : RegistryState(opts)

\* No call outside the Registry has been made.
NoOtherCalls ==
    /\ ex = [p \in Procs |-> ExIdle]
    /\ wf = [p \in Procs |-> WfIdle]
    /\ vf = VfIdle
    /\ nw = NwIdle
    /\ vt = VtIdle

Init == InitRegistry /\ NoOtherCalls

\* r.mu.RLock() (src/templator.go:188): a goroutine enters Get.
GetCall(p, name) ==
    /\ pc[p] \in {"idle", "got", "executed"}
    /\ TotalCalls < MaxCalls
    /\ ~mu.writer
    /\ mu' = [mu EXCEPT !.readers = @ + 1]
    /\ pc' = [pc EXCEPT ![p] = "get_parse"]
    /\ arg' = [arg EXCEPT ![p] = name]
    /\ calls' = [calls EXCEPT ![p] = @ + 1]
    /\ prev' = [prev EXCEPT ![p] =
                  IF pc[p] = "idle" THEN NoPrev
                  ELSE [name |-> arg[p], h |-> ret[p].h, err |-> ret[p].err]]
    /\ ret' = [ret EXCEPT ![p] = NoReturn]
    /\ LET inflight == { q \in Procs \ {p} : InGet(q) /\ arg[q] = name } IN
       conc' = [q \in Procs |->
                  IF q = p THEN inflight
                  ELSE IF q \in inflight THEN conc[q] \cup {p} ELSE conc[q]]
    /\ sink' = [sink EXCEPT ![p] = <<>>]
    /\ execErr' = [execErr EXCEPT ![p] = NoErr]
    /\ src' = [src EXCEPT ![p] = Unread]
    /\ opened' = [opened EXCEPT ![p] = {}]
    /\ UNCHANGED <<ex, wf, vf, options, nw, vt>>
    /\ UNCHANGED <<fs, fsOps, config, handlers, tmpl, reads, compiles>>

\* defer r.mu.RUnlock() (src/templator.go:189), run on every way out of Get.
RUnlock == mu' = [mu EXCEPT !.readers = @ - 1]

\* Variant: a Get that follows a failed Get of the same name does not look
\* at the file again.
ReadSource_RemembersFailure(p, path) ==
    IF prev[p].name = arg[p] /\ prev[p].err # NoErr THEN NoFile
    ELSE fs[path]

\* What the engine's file read inside ParseFS sees: the file as it is now.
ReadSource(p, path) == fs[path]

\* The members of seq that are files: NoFile stands for a path at which
\* there is none.
RECURSIVE Found(_)
Found(seq) ==
    IF seq = <<>> THEN <<>>
    ELSE (IF Head(seq) # NoFile THEN <<Head(seq)>> ELSE <<>>) \o Found(Tail(seq))

\* The paths among files whose file ParseFS reads: those that exist, up to
\* the first whose source does not parse.
OpenedFiles(files, read) ==
    LET there   == { i \in 1 .. Len(files) : read[i] # NoFile }
        rank(i) == Cardinality({ j \in there : j <= i })
        bad     == FirstBad(Found(read))
    IN  { files[i] : i \in { j \in there : bad = 0 \/ rank(j) <= bad } }

\* Variant: the error of ParseFS is dropped and Get goes on.
GetAfterParse_IgnoresError(res) == NoReturn

\* if err != nil { return nil, err } (src/templator.go:192-194): the values
\* Get returns after ParseFS, or NoReturn when Get goes on.
GetAfterParse(res) ==
    IF res.err # NoErr THEN GetReturn(Nil, res.err) ELSE NoReturn

\* template.ParseFS(...) and the error return (src/templator.go:191-194).
GetParse(p) ==
    /\ pc[p] = "get_parse"
    /\ LET path  == FilePath(config.path, arg[p])
           files == Glob(config.path, arg[p])
           read  == [i \in 1 .. Len(files) |-> ReadSource(p, files[i])]
           held  == Found([i \in 1 .. Len(files) |-> fs[files[i]]])
           res   == ParseFS(Found(read), path)
           out   == GetAfterParse(res)
       IN  /\ src' = [src EXCEPT ![p] = IF held = <<>> THEN NoFile
                                        ELSE held[1]]
           /\ opened' = [opened EXCEPT ![p] = OpenedFiles(files, read)]
           /\ reads' = [reads EXCEPT ![arg[p]] = @ + 1]
           /\ compiles' = [compiles EXCEPT ![arg[p]] =
                             IF Found(read) = <<>> THEN @ ELSE @ + 1]
           /\ IF out # NoReturn
              THEN /\ ret' = [ret EXCEPT ![p] = out]
                   /\ pc' = [pc EXCEPT ![p] = "got"]
                   /\ RUnlock
                   /\ UNCHANGED tmpl
              ELSE /\ tmpl' = [tmpl EXCEPT ![p] = res.tmpl]
                   /\ pc' = [pc EXCEPT ![p] = "get_validate"]
                   /\ UNCHANGED <<ret, mu>>
    /\ UNCHANGED <<ex, wf, vf, options, nw, vt>>
    /\ UNCHANGED <<fs, fsOps, config, handlers, arg, prev, calls, sink,
                   execErr, conc>>

\* Variants: the validation step never runs; it runs whatever the
\* configuration says.
ValidationResult_Never(cfg, name, content) == NoErr

ValidationResult_Always(cfg, name, content) ==
    validateTemplateFields(name, content, cfg.validationModel)

\* if r.config.validateFields { ... } (src/templator.go:196-200): the error
\* of the validation step, NoErr when validation is not configured.
ValidationResult(cfg, name, content) ==
    IF cfg.validateFields
    THEN validateTemplateFields(name, content, cfg.validationModel)
    ELSE NoErr

\* Variant: the new Handler is returned together with the error.
GetAfterValidate_HandlerWithError(err, id) == GetReturn(id, err)

\* The values Get returns after the validation step
\* (src/templator.go:197-205); id is the address of the new Handler.
GetAfterValidate(err, id) ==
    IF err # NoErr THEN GetReturn(Nil, err) ELSE GetReturn(id, NoErr)

\* The validation step and the successful return
\* (src/templator.go:196-205).  A panic of the validator leaves Get through
\* the deferred RUnlock without a return value.
GetValidate(p) ==
    /\ pc[p] = "get_validate"
    /\ LET err == ValidationResult(config, arg[p], tmpl[p])
           id  == <<p, calls[p]>>
           out == GetAfterValidate(err, id)
       IN  IF err.type = "panic"
           THEN /\ pc' = [pc EXCEPT ![p] = "panicked"]
                /\ UNCHANGED <<ret, handlers>>
           ELSE /\ ret' = [ret EXCEPT ![p] = out]
                /\ pc' = [pc EXCEPT ![p] = "got"]
                /\ handlers' = IF out.h # Nil
                               THEN [handlers EXCEPT ![out.h] =
                                       NewHandler(tmpl[p])]
                               ELSE handlers
    /\ RUnlock
    /\ tmpl' = [tmpl EXCEPT ![p] = NoFile]
    /\ UNCHANGED <<ex, wf, vf, options, opened, nw, vt>>
    /\ UNCHANGED <<fs, fsOps, config, arg, src, prev, calls, sink, execErr,
                   reads, compiles, conc>>

\* Handler.Execute (src/templator.go:210-212) on the Handler the goroutine
\* got, with the goroutine's own data and a writer of its own.
Execute(p) ==
    /\ pc[p] = "got"
    /\ ret[p].h # Nil
    /\ LET res == Render(handlers[ret[p].h].tmpl, DataOf(p)) IN
       /\ sink' = [sink EXCEPT ![p] = res.out]
       /\ execErr' = [execErr EXCEPT ![p] = res.err]
    /\ pc' = [pc EXCEPT ![p] = "executed"]
    /\ UNCHANGED <<ex, wf, vf, options, opened, nw, vt>>
    /\ UNCHANGED <<fs, fsOps, config, mu, handlers, arg, tmpl, src, ret,
                   prev, calls, reads, compiles, conc>>

\* The owner of the filesystem removes a template file.
FsRemove(f) ==
    /\ fsOps < MaxFsOps
    /\ fs[f] # NoFile
    /\ fs' = [fs EXCEPT ![f] = NoFile]
    /\ fsOps' = fsOps + 1
    /\ UNCHANGED <<ex, wf, vf, options, opened, nw, vt>>
    /\ UNCHANGED <<config, mu, handlers, pc, arg, tmpl, src, ret, prev,
                   calls, sink, execErr, reads, compiles, conc>>

\* The owner of the filesystem writes a valid template to a file.
FsWrite(f) ==
    /\ fsOps < MaxFsOps
    /\ fs[f] # testHTMLTemplate
    /\ fs' = [fs EXCEPT ![f] = testHTMLTemplate]
    /\ fsOps' = fsOps + 1
    /\ UNCHANGED <<ex, wf, vf, options, opened, nw, vt>>
    /\ UNCHANGED <<config, mu, handlers, pc, arg, tmpl, src, ret, prev,
                   calls, sink, execErr, reads, compiles, conc>>

(***************************************************************************)
(* Handler.Execute (src/templator.go:210-212) write by write, and          *)
(* Handler.WithFuncs (src/templator.go:216-219).  Any goroutine may hold   *)
(* any Handler that Get has returned.                                      *)
(***************************************************************************)
Allocated == { id \in HandlerIds : handlers[id] # NoHandler }

\* h.Execute(ctx, w, data) is entered: ctx is not looked at, and
\* h.tmpl.Execute(w, data) starts on an empty sink.
ExecuteCall(p, h, ctx, writer, data) ==
    /\ pc[p] \in {"idle", "got", "executed"}
    /\ h \in Allocated
    /\ ex' = [ex EXCEPT ![p] = [h |-> h, ctx0 |-> ctx, ctx |-> ctx,
                                writer |-> writer, data |-> data, pos |-> 1,
                                skip |-> 0, late |-> FALSE, engine |-> TRUE]]
    /\ pc' = [pc EXCEPT ![p] = "executing"]
    /\ sink' = [sink EXCEPT ![p] = <<>>]
    /\ execErr' = [execErr EXCEPT ![p] = NoErr]
    /\ UNCHANGED <<fs, fsOps, config, mu, handlers, arg, tmpl, src, ret,
                   prev, calls, reads, compiles, conc, wf, vf,
                   options, opened, nw, vt>>

\* The engine handles the next item of the template and writes what it
\* produces; an error of the evaluation or of the writer, and the end of
\* the template, end the call with that error, or nil, as its result.
ExecuteStep(p) ==
    /\ pc[p] = "executing"
    /\ LET e       == ex[p]
           content == handlers[e.h].tmpl
       IN  IF e.pos > Len(content)
           THEN /\ pc' = [pc EXCEPT ![p] = "executed"]
                /\ UNCHANGED <<ex, sink, execErr>>
           ELSE LET st == EngineStep(content, e.pos, e.data, e.skip)
                    wr == Write(e.writer, e.ctx, sink[p], st.bytes[1])
                IN  IF st.err # NoErr
                    THEN /\ execErr' = [execErr EXCEPT ![p] = st.err]
                         /\ pc' = [pc EXCEPT ![p] = "executed"]
                         /\ UNCHANGED <<ex, sink>>
                    ELSE IF st.bytes = <<>>
                    THEN /\ ex' = [ex EXCEPT ![p].pos = @ + 1,
                                             ![p].skip = st.skip]
                         /\ UNCHANGED <<pc, sink, execErr>>
                    ELSE IF wr.err # NoErr
                    THEN /\ ex' = [ex EXCEPT ![p].ctx = wr.ctx]
                         /\ execErr' = [execErr EXCEPT ![p] = wr.err]
                         /\ pc' = [pc EXCEPT ![p] = "executed"]
                         /\ UNCHANGED sink
                    ELSE /\ ex' = [ex EXCEPT ![p].ctx = wr.ctx,
                                             ![p].pos = @ + 1,
                                             ![p].skip = st.skip,
                                             ![p].late = @ \/ (Done(e.ctx) /\ wr.out # sink[p])]
                         /\ sink' = [sink EXCEPT ![p] = wr.out]
                         /\ UNCHANGED <<pc, execErr>>
    /\ UNCHANGED <<fs, fsOps, config, mu, handlers, arg, tmpl, src, ret,
                   prev, calls, reads, compiles, conc, wf, vf,
                   options, opened, nw, vt>>

\* The caller's context is canceled, or its deadline passes, while Execute
\* runs.
ContextDone(p, cause) ==
    /\ pc[p] = "executing"
    /\ ex[p].ctx = "active"
    /\ ex' = [ex EXCEPT ![p].ctx = cause]
    /\ UNCHANGED <<fs, fsOps, config, mu, handlers, pc, arg, tmpl, src, ret,
                   prev, calls, sink, execErr, reads, compiles, conc, wf, vf,
                   options, opened, nw, vt>>

\* Variant: the functions are added to the template of every Handler of
\* the Registry.
FuncsResult_EveryHandler(hs, h, funcMap) ==
    [hs |-> [id \in DOMAIN hs |->
               IF hs[id] = NoHandler THEN hs[id]
               ELSE [hs[id] EXCEPT !.funcs = @ \cup funcMap]],
     res |-> h]

\* h.tmpl = h.tmpl.Funcs(funcMap); return h (src/templator.go:217-218):
\* the functions are added to the receiver's template, and the receiver
\* is what is returned.
FuncsResult(hs, h, funcMap) ==
    [hs |-> [hs EXCEPT ![h].funcs = @ \cup funcMap], res |-> h]

WithFuncs(p, h, funcMap) ==
    /\ pc[p] \in {"idle", "got", "executed"}
    /\ h \in Allocated
    /\ wf[p] = WfIdle
    /\ LET r == FuncsResult(handlers, h, funcMap)
       IN  /\ handlers' = r.hs
           /\ wf' = [wf EXCEPT ![p] = [recv |-> h, funcMap |-> funcMap,
                                       before |-> handlers[h],
                                       res |-> r.res]]
    /\ UNCHANGED <<fs, fsOps, config, mu, pc, arg, tmpl, src, ret, prev,
                   calls, sink, execErr, reads, compiles, conc, ex, vf,
                   options, opened, nw, vt>>

Next ==
    \/ \E p \in Procs, name \in Names : GetCall(p, name)
    \/ \E p \in Procs : GetParse(p)
    \/ \E p \in Procs : GetValidate(p)
    \/ \E p \in Procs : Execute(p)
    \/ \E f \in Paths : FsRemove(f)
    \/ \E f \in Paths : FsWrite(f)

Spec == Init /\ [][Next]_vars

\* The scheduler does not stop all goroutines for ever while one of them
\* is inside Get: neither step of Get waits for anything.  The number of
\* calls being bounded, every goroutine inside Get then takes its step.
Fairness == WF_vars(\E p \in Procs : GetParse(p) \/ GetValidate(p))

\* Concurrent Get calls alone, for names whose Get succeeds, fails in
\* ParseFS, fails in the validation, and panics in it.
LiveNames == {"valid", "invalid", "execution_error", "through_string",
              "nonexistent"}
LiveNext ==
    \/ \E p \in Procs, name \in LiveNames : GetCall(p, name)
    \/ \E p \in Procs : GetParse(p)
    \/ \E p \in Procs : GetValidate(p)

FairSpec == Init /\ [][LiveNext]_vars /\ Fairness

(***************************************************************************)
(* validateField on its own: the type and the path are drawn from the      *)
(* types above and from the paths of up to MaxPathLen segments, as the     *)
(* table of Test_validateField (src/unnamed/part_003:239-291) does.        *)
(***************************************************************************)
Segments == {"Title", "SubTitle", "Author", "Editor", "Name", "Missing"}
SegLists == UNION { [1 .. n -> Segments] : n \in 1 .. MaxPathLen }

\* The path string of a list of segments: the segments joined by ".".
RECURSIVE JoinFrom(_, _)
JoinFrom(segs, i) ==
    IF i > Len(segs) THEN <<>>
    ELSE (IF i > 1 THEN <<".">> ELSE <<>>) \o <<segs[i]>> \o JoinFrom(segs, i + 1)

FieldPaths == { JoinFrom(segs, 1) : segs \in SegLists }

VFInit ==
    /\ InitRegistry
    /\ ex = [p \in Procs |-> ExIdle]
    /\ wf = [p \in Procs |-> WfIdle]
    /\ nw = NwIdle
    /\ vt = VtIdle
    /\ \E typ \in Types \cup {NilType}, path \in FieldPaths :
           vf = [pc |-> "called", typ |-> typ, path |-> path, res |-> NoErr]

VFApply ==
    /\ vf.pc = "called"
    /\ vf' = [vf EXCEPT !.pc = "done", !.res = validateField(vf.typ, vf.path)]
    /\ UNCHANGED <<fs, fsOps, config, mu, handlers, pc, arg, tmpl, src, ret,
                   prev, calls, sink, execErr, reads, compiles, conc, ex, wf,
                   options, opened, nw, vt>>

VFNext == VFApply

VFSpec == VFInit /\ [][VFNext]_vars

(***************************************************************************)
(* Execute and WithFuncs on a Handler that several goroutines share, as in *)
(* TestHandler_ExecuteContext (src/unnamed/part_008:197-296): the state    *)
(* after NewRegistry(fs) and one successful Get(name) by goroutine 1.      *)
(***************************************************************************)
ExecInit ==
    \E name \in Names :
        LET cfg     == NewRegistry(<<>>)
            content == InitialContent(name)
            res     == ParseFS(Found(<<content>>), FilePath(cfg.path, name))
        IN  /\ res.err = NoErr
            /\ ValidationResult(cfg, name, res.tmpl) = NoErr
            /\ fs = InitialFs
            /\ fsOps = 0
            /\ options = <<>>
            /\ config = cfg
            /\ mu = [readers |-> 0, writer |-> FALSE]
            /\ handlers = [id \in HandlerIds |->
                             IF id = <<1, 1>> THEN NewHandler(res.tmpl)
                             ELSE NoHandler]
            /\ pc = [p \in Procs |-> IF p = 1 THEN "got" ELSE "idle"]
            /\ arg = [p \in Procs |-> IF p = 1 THEN name ELSE ""]
            /\ tmpl = [p \in Procs |-> NoFile]
            /\ src = [p \in Procs |-> IF p = 1 THEN content ELSE Unread]
            /\ ret = [p \in Procs |->
                        IF p = 1 THEN GetReturn(<<1, 1>>, NoErr) ELSE NoReturn]
            /\ prev = [p \in Procs |-> NoPrev]
            /\ calls = [p \in Procs |-> IF p = 1 THEN 1 ELSE 0]
            /\ sink = [p \in Procs |-> <<>>]
            /\ execErr = [p \in Procs |-> NoErr]
            /\ reads = [n \in AllNames |-> IF n = name THEN 1 ELSE 0]
            /\ compiles = [n \in AllNames |-> IF n = name THEN 1 ELSE 0]
            /\ conc = [p \in Procs |-> {}]
            /\ opened = [p \in Procs |->
                           IF p = 1 THEN {FilePath(cfg.path, name)} ELSE {}]
            /\ NoOtherCalls

ExecNext ==
    \/ \E p \in Procs, h \in HandlerIds, ctx \in Contexts :
          \E writer \in WritersFor(ctx), data \in {DataOf(p), Welcome} :
              ExecuteCall(p, h, ctx, writer, data)
    \/ \E p \in Procs : ExecuteStep(p)
    \/ \E p \in Procs, cause \in {"canceled", "deadline"} : ContextDone(p, cause)

ExecSpec == ExecInit /\ [][ExecNext]_vars

(***************************************************************************)
(* validateTemplateFields on its own: the source is any sequence of up to  *)
(* MaxItems of the actions below, some of whose paths resolve in           *)
(* ComplexData and some of which do not.                                   *)
(***************************************************************************)
Items == { Field(<<"Title">>), Field(<<"Missing">>), Field(<<"Other">>),
           Field(<<"Title", ".", "Foo">>), If(<<"Title">>), If(<<"Gone">>) }
Sources == UNION { [1 .. n -> Items] : n \in 1 .. MaxItems }

VTInit ==
    /\ InitRegistry
    /\ ex = [p \in Procs |-> ExIdle]
    /\ wf = [p \in Procs |-> WfIdle]
    /\ vf = VfIdle
    /\ nw = NwIdle
    /\ \E content \in Sources, typ \in {"ComplexData", "*ComplexData", "string"} :
           vt = [pc |-> "called", name |-> "t", content |-> content,
                 typ |-> typ]

VTApply ==
    /\ vt.pc = "called"
    /\ vt' = [pc |-> "done", name |-> vt.name, content |-> vt.content,
              typ |-> vt.typ,
              res |-> validateTemplateFields(vt.name, vt.content, vt.typ)]
    /\ UNCHANGED <<fs, fsOps, config, mu, handlers, pc, arg, tmpl, src, ret,
                   prev, calls, sink, execErr, reads, compiles, conc, ex, wf,
                   vf, options, opened, nw>>

VTNext == VTApply

VTSpec == VTInit /\ [][VTNext]_vars

(***************************************************************************)
(* extractTemplateFields and uniqueFields on their own.  The sources also  *)
(* hold items that neither pattern matches: text, {{end}} and a pipeline   *)
(* {{.Title | upper}}.  The lists given to uniqueFields are those of       *)
(* TestUniqueFields (src/unnamed/part_003:210-237) and the others of up to *)
(* MaxItems elements over the same strings.                                *)
(***************************************************************************)
AllItems == Items \cup { Text("x"), End, Call(<<"Title">>, "upper") }
AllSources == UNION { [1 .. n -> AllItems] : n \in 0 .. MaxItems }
FieldLists == UNION { [1 .. n -> {"foo", "bar", "baz"}] : n \in 0 .. MaxItems }

XFInit ==
    /\ InitRegistry
    /\ ex = [p \in Procs |-> ExIdle]
    /\ wf = [p \in Procs |-> WfIdle]
    /\ vf = VfIdle
    /\ nw = NwIdle
    /\ \/ \E content \in AllSources :
              vt = [pc |-> "called", op |-> "extractTemplateFields",
                    content |-> content]
       \/ \E fields \in FieldLists :
              vt = [pc |-> "called", op |-> "uniqueFields", fields |-> fields]

XFOthers ==
    UNCHANGED <<fs, fsOps, config, mu, handlers, pc, arg, tmpl, src, ret,
                prev, calls, sink, execErr, reads, compiles, conc, ex, wf,
                vf, options, opened, nw>>

ExtractApply ==
    /\ vt.pc = "called" /\ vt.op = "extractTemplateFields"
    /\ vt' = [pc |-> "done", op |-> vt.op, content |-> vt.content,
              res |-> extractTemplateFields(vt.content)]
    /\ XFOthers

UniqueApply ==
    /\ vt.pc = "called" /\ vt.op = "uniqueFields"
    /\ vt' = [pc |-> "done", op |-> vt.op, fields |-> vt.fields,
              res |-> uniqueFields(vt.fields)]
    /\ XFOthers

\* uniqueFields applied to its own result.
UniqueReapply ==
    /\ vt.pc = "done" /\ vt.op = "uniqueFields"
    /\ vt' = [pc |-> "redone", op |-> vt.op, fields |-> vt.res,
              res |-> uniqueFields(vt.res)]
    /\ XFOthers

XFNext == ExtractApply \/ UniqueApply \/ UniqueReapply

XFSpec == XFInit /\ [][XFNext]_vars

(***************************************************************************)
(* New and loadTemplates (src/templator.go:43-88), the variant that finds  *)
(* its templates by walking the base directory.  The filesystem is a set   *)
(* of the files below, one of which may hold a source that does not parse. *)
(***************************************************************************)
\* The files of TestNew (src/unnamed/part_007:21-110), in the order in
\* which fs.WalkDir visits them, with the directories above each and its
\* extension as filepath.Ext gives it.
WalkOrder ==
    << [path |-> "custom/template1.html", dirs |-> {"custom"}, ext |-> ".html"],
       [path |-> "custom/test.html", dirs |-> {"custom"}, ext |-> ".html"],
       [path |-> "templates/nested/template2.html",
        dirs |-> {"templates", "templates/nested"}, ext |-> ".html"],
       [path |-> "templates/template1.html", dirs |-> {"templates"}, ext |-> ".html"],
       [path |-> "templates/test.html", dirs |-> {"templates"}, ext |-> ".html"],
       [path |-> "templates/test.txt", dirs |-> {"templates"}, ext |-> ".txt"] >>

WalkFiles == { WalkOrder[i].path : i \in 1 .. Len(WalkOrder) }

\* WithTemplatesPath for a Templator (src/templator.go:34-41) and the
\* option loop of New (51-53).
RECURSIVE TemplatorPath(_, _)
TemplatorPath(path, opts) ==
    IF opts = <<>> THEN path
    ELSE TemplatorPath(IF Head(opts).path = "" THEN path ELSE Head(opts).path,
                       Tail(opts))

\* Variant: the extension of a file is not looked at.
IsTemplateFile_AnyExt(f) == TRUE

\* ext := filepath.Ext(path); if ext != t.ext { return nil }
\* (src/templator.go:72-75)
IsTemplateFile(f) == f.ext = ".html"

\* The walk function of loadTemplates (src/templator.go:62-87) on the files
\* under root from the i-th on; fsys maps a path to its source or NoFile.
RECURSIVE WalkFrom(_, _, _, _)
WalkFrom(fsys, root, i, templates) ==
    IF i > Len(WalkOrder) THEN [templates |-> templates, err |-> NoErr]
    ELSE LET f == WalkOrder[i] IN
         IF fsys[f.path] = NoFile \/ root \notin f.dirs
         THEN WalkFrom(fsys, root, i + 1, templates)
         ELSE IF ~IsTemplateFile(f)
         THEN WalkFrom(fsys, root, i + 1, templates)
         ELSE LET res == ParseFS(<<fsys[f.path]>>, f.path) IN
              IF res.err # NoErr
              THEN [templates |-> templates,
                    err |-> ErrorString("error parsing template", f.path)]
              ELSE WalkFrom(fsys, root, i + 1, templates \cup {f.path})

\* fs.WalkDir reports a root that does not exist to the walk function,
\* which returns that error (src/templator.go:63-65).
loadTemplates(fsys, root) ==
    IF \A i \in 1 .. Len(WalkOrder) :
           fsys[WalkOrder[i].path] = NoFile \/ root \notin WalkOrder[i].dirs
    THEN [templates |-> {}, err |-> ErrorString("file does not exist", root)]
    ELSE WalkFrom(fsys, root, 1, {})

\* New (src/templator.go:43-59): the Templator, or nil, and the error.
New(fsys, opts) ==
    LET loaded == loadTemplates(fsys, TemplatorPath(DefaultTemplateDir, opts)) IN
    IF loaded.err # NoErr
    THEN [t |-> "nil", templates |-> {},
          err |-> ErrorString("error loading templates", loaded.err.arg)]
    ELSE [t |-> "templator", templates |-> loaded.templates, err |-> NoErr]

NewOptionLists ==
    { <<>>, <<WithTemplatesPath("custom")>>, <<WithTemplatesPath("")>>,
      <<WithTemplatesPath("non-existent")>> }

NewInit ==
    /\ InitRegistry
    /\ ex = [p \in Procs |-> ExIdle]
    /\ wf = [p \in Procs |-> WfIdle]
    /\ vf = VfIdle
    /\ vt = VtIdle
    /\ \E present \in SUBSET WalkFiles, broken \in SUBSET WalkFiles,
          opts \in NewOptionLists :
           /\ Cardinality(broken) <= 1
           /\ broken \subseteq present
           /\ nw = [pc |-> "called",
                    fs |-> [f \in WalkFiles |->
                              IF f \notin present THEN NoFile
                              ELSE IF f \in broken THEN SrcInvalidSyntax
                              ELSE testHTMLTemplate],
                    opts |-> opts]

NewApply ==
    /\ nw.pc = "called"
    /\ nw' = [pc |-> "done", fs |-> nw.fs, opts |-> nw.opts,
              res |-> New(nw.fs, nw.opts)]
    /\ UNCHANGED <<fs, fsOps, config, mu, handlers, pc, arg, tmpl, src, ret,
                   prev, calls, sink, execErr, reads, compiles, conc, ex, wf,
                   vf, options, opened, vt>>

NewNext == NewApply

NewSpec == NewInit /\ [][NewNext]_vars

(***************************************************************************)
(* The Registry under each option list of the tests, with one caller that  *)
(* makes its Get and Execute calls one after the other, nested names and a *)
(* glob pattern among the names.                                           *)
(***************************************************************************)
OptInit == (\E opts \in MoreOptionLists : RegistryState(opts)) /\ NoOtherCalls

OptNext ==
    \/ \E name \in AllNames : GetCall(1, name)
    \/ GetParse(1)
    \/ GetValidate(1)
    \/ Execute(1)

OptSpec == OptInit /\ [][OptNext]_vars

(***************************************************************************)
(* The Registry with field validation on, over a filesystem whose file     *)
(* valid.html holds any source of up to MaxItems items, among them text    *)
(* alone and a loop over .Items whose body refers to .Name; the model is a *)
(* ComplexData, a pointer to one, or a Page with Items []Item.  One caller *)
(* makes Get calls; nothing is executed.                                   *)
(***************************************************************************)
ScanItems == { Text("x"), End, Field(<<"Title">>), Field(<<"Name">>),
               Range(<<"Items">>) }
ScanSources == UNION { [1 .. n -> ScanItems] : n \in 0 .. MaxItems }
ScanModels == {"ComplexData", "*ComplexData", "Page"}

ScanInit ==
    /\ \E source \in ScanSources, model \in ScanModels :
           RegistryStateOn(
               [InitialFs EXCEPT ![FilePath(DefaultTemplateDir, "valid")] =
                                    source],
               <<WithFieldValidation(model)>>)
    /\ NoOtherCalls

ScanNext ==
    \/ GetCall(1, "valid")
    \/ GetParse(1)
    \/ GetValidate(1)

ScanSpec == ScanInit /\ [][ScanNext]_vars

\* WithFuncs on the shared Handler, and Execute by the goroutine that got it.
FuncsNext ==
    \/ \E p \in Procs, h \in HandlerIds, funcMap \in FuncMaps :
          WithFuncs(p, h, funcMap)
    \/ \E p \in Procs : Execute(p)

FuncsSpec == ExecInit /\ [][FuncsNext]_vars

(***************************************************************************)
(* Get, Execute and WithFuncs together, by all goroutines, on a Registry   *)
(* made with any option list of the tests.                                 *)
(***************************************************************************)
FrameNames == {"valid", "nonexistent", "execution_error"}

FrameNext ==
    \/ \E p \in Procs, name \in FrameNames : GetCall(p, name)
    \/ \E p \in Procs : GetParse(p)
    \/ \E p \in Procs : GetValidate(p)
    \/ \E p \in Procs : Execute(p)
    \/ \E p \in Procs, h \in HandlerIds : WithFuncs(p, h, {"upper"})

FrameSpec == OptInit /\ [][FrameNext]_vars

(***************************************************************************)
(* Vocabulary of the properties.                                           *)
(***************************************************************************)
Returned(p) == pc[p] \in {"got", "executed"}
Succeeded(p) == Returned(p) /\ ret[p].h # Nil /\ ret[p].err = NoErr
OthersNeverCalled(S) == \A r \in Procs \ S : calls[r] = 0

\* The field paths a source refers to, directly or as an if-condition.
ReferencedPaths(content) ==
    { content[i].p : i \in { j \in 1 .. Len(content) :
                               content[j].k \in {"field", "if"} } }

\* A path resolves in a type when each of its segments names a field of
\* the record reached so far, a pointer counting as what it points to.
Pointee(t) == IF t \in Types /\ Kind(t) = "ptr" THEN Elem(t) ELSE t
IsRecord(t) == t \in Types /\ Kind(t) = "struct"

RECURSIVE ResolvesFrom(_, _, _)
ResolvesFrom(t, parts, i) ==
    \/ i > Len(parts)
    \/ /\ IsRecord(Pointee(t))
       /\ parts[i] \in DOMAIN StructFields(Pointee(t))
       /\ ResolvesFrom(StructFields(Pointee(t))[parts[i]], parts, i + 1)

Resolves(path, t) == ResolvesFrom(t, Split(path), 1)
AllResolve(content, t) == \A path \in ReferencedPaths(content) : Resolves(path, t)

Exists(content) == content # NoFile /\ content # Unread

\* C1: for a name not yet fetched, concurrent Get(name) calls cause exactly
\* one filesystem read and one compilation, and every caller receives the
\* same Handler.
C1_ConcurrentGetsCompileOnce ==
    \A p \in Procs : \A q \in conc[p] :
        ( /\ OthersNeverCalled({p, q})
          /\ calls[p] = 1 /\ calls[q] = 1
          /\ Succeeded(p) /\ Succeeded(q) )
        => /\ ret[p].h = ret[q].h
           /\ reads[arg[p]] = 1
           /\ compiles[arg[p]] = 1

\* C2: two successive successful Get(name) calls return the identical
\* Handler with one filesystem read and one compilation in total; the
\* second call succeeds from the cache whatever became of the file.
C2_SecondGetIsCacheHit ==
    \A p \in Procs :
        ( /\ Returned(p)
          /\ prev[p].name = arg[p]
          /\ prev[p].h # Nil )
        => /\ ret[p].h = prev[p].h
           /\ ret[p].err = NoErr
           /\ OthersNeverCalled({p}) =>
                 reads[arg[p]] = 1 /\ compiles[arg[p]] = 1

C4_FailureIsNotRemembered ==
    \A p \in Procs :
        ( /\ Returned(p)
          /\ prev[p].name = arg[p]
          /\ prev[p].err # NoErr )
        => /\ src[p] # Unread
           /\ ( /\ Exists(src[p])
                /\ SyntaxOK(src[p])
                /\ config.validateFields =>
                      AllResolve(src[p], config.validationModel) )
              => Succeeded(p)

C4_Witness ==
    \E p \in Procs :
        /\ prev[p].name = arg[p]
        /\ prev[p].err # NoErr
        /\ Succeeded(p)

\* C5: goroutines that concurrently Get an existing valid template and
\* Execute it with their own data and their own writer all finish without
\* error, and each writer holds the rendering of that goroutine's data.
C5_ConcurrentExecuteIsIsolated ==
    \A p \in Procs :
        /\ (Returned(p) /\ src[p] = testHTMLTemplate) => Succeeded(p)
        /\ (pc[p] = "executed" /\ src[p] = testHTMLTemplate) =>
              /\ execErr[p] = NoErr
              /\ sink[p] = << "<title>", "Title " \o ToString(p),
                              "</title><h1>", "Content " \o ToString(p),
                              "</h1>" >>

C5_Witness ==
    \E p \in Procs : \E q \in conc[p] :
        /\ pc[p] = "executed" /\ pc[q] = "executed"
        /\ src[p] = testHTMLTemplate /\ src[q] = testHTMLTemplate
        /\ arg[p] = arg[q]
        /\ sink[p] # sink[q]

\* C6: Get(name) for a name whose file does not exist returns no Handler
\* and a lookup error (ErrTemplateNotFound) that carries the name.
C6_MissingFileIsNotFoundError ==
    \A p \in Procs :
        (Returned(p) /\ src[p] = NoFile) =>
            /\ ret[p].h = Nil
            /\ ret[p].err.type = "ErrTemplateNotFound"
            /\ ret[p].err.TemplateName = arg[p]

\* C7: Get(name) for an existing template whose source does not parse
\* returns an error and a nil Handler, and no Handler is kept for it.
C7_SyntaxErrorGivesNoHandler ==
    \A p \in Procs :
        (Returned(p) /\ Exists(src[p]) /\ ~SyntaxOK(src[p])) =>
            /\ ret[p].h = Nil
            /\ ret[p].err # NoErr
            /\ handlers[<<p, calls[p]>>] = NoHandler

C7_Witness ==
    \E p \in Procs :
        /\ Returned(p)
        /\ src[p] = SrcInvalidSyntax
        /\ ret[p].h = Nil
        /\ ret[p].err # NoErr

\* C8: a Get that returns returns exactly one of a Handler and an error;
\* a returned Handler holds the template compiled from the source that was
\* read and refers to the Registry that made it.
C8_HandlerXorError ==
    \A p \in Procs :
        Returned(p) =>
            /\ (ret[p].h = Nil) # (ret[p].err = NoErr)
            /\ ret[p].h # Nil =>
                  /\ handlers[ret[p].h] # NoHandler
                  /\ handlers[ret[p].h].tmpl = src[p]
                  /\ SyntaxOK(handlers[ret[p].h].tmpl)
                  /\ handlers[ret[p].h].reg = Registry

C8_Witness ==
    \E p, q \in Procs :
        /\ Succeeded(p)
        /\ Returned(q) /\ ret[q].h = Nil /\ ret[q].err # NoErr

\* C9: with field validation enabled, Get on an existing template that
\* parses succeeds exactly when every field path of its source resolves in
\* the bound type, and otherwise returns a ValidationError naming the
\* template and a path that does not resolve.
C9_ValidationDecidesGet ==
    config.validateFields =>
        \A p \in Procs :
            ( /\ pc[p] \in {"got", "executed", "panicked"}
              /\ Exists(src[p])
              /\ SyntaxOK(src[p]) )
            => IF AllResolve(src[p], config.validationModel)
               THEN Succeeded(p)
               ELSE /\ Returned(p)
                    /\ ret[p].h = Nil
                    /\ ret[p].err.type = "ValidationError"
                    /\ ret[p].err.TemplateName = arg[p]
                    /\ ret[p].err.FieldPath \in ReferencedPaths(src[p])
                    /\ ~Resolves(ret[p].err.FieldPath, config.validationModel)

\* C10: without field validation Get succeeds for every existing template
\* that parses, whatever fields it refers to; a reference to a field the
\* data type lacks, outside any conditional block, is reported by Execute.
C10_UnvalidatedFieldsFailInExecute ==
    ~config.validateFields =>
        \A p \in Procs :
            /\ (Returned(p) /\ Exists(src[p]) /\ SyntaxOK(src[p])) =>
                  Succeeded(p)
            /\ ( /\ pc[p] = "executed"
                 /\ \A i \in 1 .. Len(src[p]) : src[p][i].k # "if"
                 /\ ~AllResolve(src[p], "ComplexData") )
               => execErr[p].type = "execError"

C10_Witness ==
    \E p, q \in Procs :
        /\ ~config.validateFields
        /\ pc[p] = "executed" /\ src[p] = SrcExecutionError
        /\ execErr[p] # NoErr
        /\ pc[q] = "executed" /\ src[q] = SrcThroughString
        /\ execErr[q] # NoErr


\* C11: field-path resolution unwraps one level of pointer at the root type
\* and after each segment, so validateField accepts every path each of whose
\* segments names a field of the record reached so far, a pointer to a
\* record or to a string counting as what it points to.
C11_PointersAreUnwrapped ==
    (vf.pc = "done" /\ vf.typ # NilType /\ Resolves(vf.path, vf.typ)) =>
        vf.res = NoErr

\* A path through a pointer field of a record.
C11_Witness ==
    /\ vf.pc = "done"
    /\ vf.typ = "Article"
    /\ vf.path = <<"Editor", ".", "Name">>
    /\ vf.res = NoErr

\* A pointer to a record as the root, and a path ending at a pointer field.
C11_WitnessRootPointer ==
    /\ vf.pc = "done"
    /\ vf.typ = "*ComplexData"
    /\ vf.path = <<"SubTitle">>
    /\ vf.res = NoErr

\* C12: validateField returns an error, whatever the path, when the type is
\* the nil type and when the root type, after one level of pointer is
\* unwrapped, is not a record.
C12_NilAndNonRecordRootsAreErrors ==
    (vf.pc = "done" /\ (vf.typ = NilType \/ ~IsRecord(Pointee(vf.typ)))) =>
        vf.res.type = "errorString"

C12_Witness ==
    /\ vf.pc = "done"
    /\ vf.typ = "string"
    /\ vf.res = ErrorString("expected struct type, got", "string")

C12_WitnessNilType ==
    /\ vf.pc = "done"
    /\ vf.typ = NilType
    /\ vf.res = ErrorString("nil type", "")


(***************************************************************************)
(* Vocabulary of the properties of Execute and WithFuncs.                  *)
(***************************************************************************)
\* Goroutine p has made an Execute call, which has returned.
ExecDone(p) == pc[p] = "executed" /\ ex[p].h # Nil

\* The name under which a Handler's template was fetched.
NameOf(h) == arg[h[1]]

\* context.Canceled, context.DeadlineExceeded and the cause of a context
\* that is done; the package's error for a nil context.
Canceled == ErrorString("context canceled", "")
DeadlineExceeded == ErrorString("context deadline exceeded", "")
CauseOf(ctx) == IF ctx = "deadline" THEN DeadlineExceeded ELSE Canceled
ErrNilContext == ErrorString("nil context", "")

\* err is an ErrTemplateExecution (src/unnamed/part_004:14-26) whose Unwrap
\* yields cause.
UnwrapsTo(err, cause) ==
    /\ err.type = "ErrTemplateExecution"
    /\ err.msg = cause.msg
    /\ err.arg = cause.arg

\* C13: Execute with a nil context returns an ErrTemplateExecution that
\* unwraps to ErrNilContext; the engine is never invoked and nothing is
\* written to the sink.
C13_NilContextIsRejected ==
    \A p \in Procs :
        (ExecDone(p) /\ ex[p].ctx0 = "nil") =>
            /\ UnwrapsTo(execErr[p], ErrNilContext)
            /\ ~ex[p].engine
            /\ sink[p] = <<>>

\* C14: Execute with a context that is already done when it is called
\* returns an ErrTemplateExecution that unwraps to the cause of the
\* cancellation, even when the sink would accept every write.
C14_DoneContextIsRejected ==
    \A p \in Procs :
        (ExecDone(p) /\ Done(ex[p].ctx0)) =>
            UnwrapsTo(execErr[p], CauseOf(ex[p].ctx0))

\* C15: during Execute every write to the sink is preceded by a check of
\* the context: once the context is done no later write reaches the sink,
\* and a call in which a write came up after that returns an error that
\* unwraps to the cause of the cancellation.
C15_NoWriteAfterCancellation ==
    \A p \in Procs :
        /\ ~ex[p].late
        /\ (ExecDone(p) /\ ex[p].late) =>
               UnwrapsTo(execErr[p], CauseOf(ex[p].ctx))

\* C16: when the write to the sink fails and the context is canceled at the
\* same write (cancelAndFailWriter), the error Execute returns unwraps to
\* the cause of the cancellation, not to the error of the sink.
C16_CancellationBeatsSinkError ==
    \A p \in Procs :
        ( /\ ExecDone(p)
          /\ ex[p].writer = "cancelAndFail"
          /\ handlers[ex[p].h].tmpl = testHTMLTemplate ) =>
            /\ UnwrapsTo(execErr[p], CauseOf(ex[p].ctx))
            /\ execErr[p].msg # ErrClosedPipe.msg

\* C17: after the engine's render has returned, Execute checks the context
\* once more: if the context is done then, Execute returns the cause of the
\* cancellation even though the render reported no error.
C17_ContextIsRecheckedAfterRender ==
    \A p \in Procs :
        ( /\ ExecDone(p)
          /\ ex[p].pos > Len(handlers[ex[p].h].tmpl)
          /\ Done(ex[p].ctx) ) =>
            UnwrapsTo(execErr[p], CauseOf(ex[p].ctx))

\* C18: every non-nil error Execute returns is an ErrTemplateExecution that
\* carries the name of the template and whose Unwrap yields the cause.
C18_ErrorsAreErrTemplateExecution ==
    \A p \in Procs :
        (ExecDone(p) /\ execErr[p] # NoErr) =>
            /\ execErr[p].type = "ErrTemplateExecution"
            /\ execErr[p].TemplateName = NameOf(ex[p].h)

\* C19: Execute with a non-nil context that never becomes done, on a sink
\* that accepts every write, returns nil exactly when the engine's render
\* of the template with the data succeeds, and the sink has received
\* exactly the bytes the engine produced, in order; the template of the
\* example with Title "Welcome" and Content "Hello, World!" gives that
\* title and that content in the output.
C19_ExecuteIsTheEnginesRender ==
    \A p \in Procs :
        ( /\ ExecDone(p)
          /\ ex[p].ctx0 = "active" /\ ex[p].ctx = "active"
          /\ ex[p].writer = "buffer" ) =>
            LET content == handlers[ex[p].h].tmpl
                res     == RenderFrom(content, 1, ex[p].data, <<>>, 0)
            IN  /\ (execErr[p] = NoErr) <=> (res.err = NoErr)
                /\ sink[p] = res.out
                /\ (content = testHTMLTemplate /\ ex[p].data = Welcome) =>
                       sink[p] = << "<title>", "Welcome", "</title><h1>",
                                    "Hello, World!", "</h1>" >>

C19_Witness ==
    \E p \in Procs :
        /\ ExecDone(p)
        /\ ex[p].ctx0 = "active" /\ ex[p].ctx = "active"
        /\ ex[p].writer = "buffer"
        /\ handlers[ex[p].h].tmpl = testHTMLTemplate
        /\ ex[p].data = Welcome
        /\ execErr[p] = NoErr
        /\ Len(sink[p]) = 5

\* A render that fails: nothing but the error comes back.
C19_WitnessRenderFails ==
    \E p \in Procs :
        /\ ExecDone(p)
        /\ ex[p].ctx0 = "active" /\ ex[p].ctx = "active"
        /\ ex[p].writer = "buffer"
        /\ execErr[p].type = "execError"

\* C20: WithFuncs(map) returns a new Handler whose function set is the
\* receiver's extended by map, and leaves the receiver as it was: the same
\* compiled template and the same function set as before the call.
C20_WithFuncsReturnsNewHandler ==
    \A p \in Procs :
        wf[p] # WfIdle =>
            /\ wf[p].res # wf[p].recv
            /\ handlers[wf[p].res].funcs = wf[p].before.funcs \cup wf[p].funcMap
            /\ handlers[wf[p].recv] = wf[p].before

\* C21: when two callers hold the same Handler and each calls WithFuncs
\* with its own map, each derived Handler is private to its caller: a
\* caller's derived Handler has none of the other caller's functions beyond
\* its own, and the shared Handler, on which the Execute calls run, has
\* none of either caller's functions.
C21_DerivedHandlersArePrivate ==
    \A p \in Procs : \A q \in Procs \ {p} :
        ( /\ wf[p] # WfIdle /\ wf[q] # WfIdle
          /\ wf[p].recv = wf[q].recv ) =>
            /\ (handlers[wf[p].res].funcs \cap wf[q].funcMap) \subseteq wf[p].funcMap
            /\ handlers[wf[p].recv].funcs \cap (wf[p].funcMap \cup wf[q].funcMap) = {}

\* C27: on a cache miss Get holds the exclusive (write) lock while it reads,
\* validates and compiles, so at no time are two callers inside the
\* read/validate/compile steps for the same name at once.
C27_ResolutionIsExclusive ==
    \A p \in Procs :
        InGet(p) =>
            /\ mu.writer
            /\ \A q \in Procs \ {p} : ~(InGet(q) /\ arg[q] = arg[p])

\* C28: with field validation configured, Get validates the source before
\* it compiles it: for a source that both refers to a field missing from
\* the shape and does not parse, Get returns the ValidationError and no
\* compilation is attempted.
C28_ValidationPrecedesCompilation ==
    \A p \in Procs :
        ( /\ Returned(p)
          /\ config.validateFields
          /\ Exists(src[p])
          /\ ~SyntaxOK(src[p])
          /\ ~AllResolve(src[p], config.validationModel) ) =>
            /\ ret[p].err.type = "ValidationError"
            /\ compiles[arg[p]] = 0

\* C29: validateField on a path one of whose segments before the last
\* resolves to a field that is not a record (Title.Name, Title being a
\* string) returns an error for that path; it neither crashes nor reports
\* success.
C29_PathThroughNonRecordIsAnError ==
    ( /\ vf.pc = "done"
      /\ IsRecord(Pointee(vf.typ))
      /\ Len(Split(vf.path)) > 1
      /\ Split(vf.path)[1] \in DOMAIN StructFields(Pointee(vf.typ))
      /\ ~IsRecord(Pointee(StructFields(Pointee(vf.typ))[Split(vf.path)[1]])) ) =>
        vf.res.type = "errorString"

(***************************************************************************)
(* Vocabulary of the properties of the options and of name resolution.     *)
(***************************************************************************)
\* The files that lie under a base path.
UnderBase(base) == { FilePath(base, n) : n \in FileNames }

\* The base path the option WithTemplatesPath(path) asks for.
BaseFor(path) == IF path = "" THEN DefaultTemplateDir ELSE path

\* C22: NewRegistry with WithTemplatesPath(p) uses base path p when p is
\* not empty and keeps the default base path "templates" when p is empty;
\* Get(name) then reads from that base path, and from nowhere else.
C22_WithTemplatesPathSetsBasePath ==
    \A path \in Dirs \cup {""} :
        options = <<WithTemplatesPath(path)>> =>
            /\ config.path = BaseFor(path)
            /\ \A p \in Procs :
                 Returned(p) =>
                     /\ opened[p] \subseteq UnderBase(BaseFor(path))
                     /\ arg[p] \in FileNames =>
                            src[p] = InitialFile(BaseFor(path), arg[p])

\* Get("valid") under WithTemplatesPath("custom/path") has read the file
\* under custom/path and Execute has rendered it.
C22_Witness ==
    /\ options = <<WithTemplatesPath("custom/path")>>
    /\ pc[1] = "executed"
    /\ arg[1] = "valid"
    /\ src[1] = SrcCustom
    /\ opened[1] = {"custom/path/valid.html"}
    /\ sink[1] = <<"custom: ", DataOf(1).Title>>

\* Get("valid") under WithTemplatesPath("") has read the file under
\* templates.
C22_WitnessEmptyPath ==
    /\ options = <<WithTemplatesPath("")>>
    /\ Succeeded(1)
    /\ arg[1] = "valid"
    /\ opened[1] = {"templates/valid.html"}

\* C23: NewRegistry succeeds with every built-in option and does not touch
\* the filesystem: it returns a Registry and a nil error even when the
\* configured template directory does not exist, and the missing directory
\* is reported only by a later Get.
C23_ConstructionNeverFails ==
    /\ NewRegistryErr(options) = NoErr
    /\ config = NewRegistry(options)
    /\ TotalCalls = 0 =>
           /\ \A n \in AllNames : reads[n] = 0
           /\ \A p \in Procs : opened[p] = {}
    /\ options = <<WithTemplatesPath("non-existent")>> =>
           \A p \in Procs :
               Returned(p) =>
                   /\ ret[p].h = Nil
                   /\ ret[p].err = ErrorString("template: pattern matches no files",
                                               FilePath("non-existent", arg[p]))
                   /\ opened[p] = {}

C23_Witness ==
    /\ options = <<WithTemplatesPath("non-existent")>>
    /\ config.path = "non-existent"
    /\ Returned(1)
    /\ arg[1] = "valid"
    /\ ret[1].h = Nil
    /\ ret[1].err.msg = "template: pattern matches no files"

\* C24: Get(name) resolves the name to exactly one source file,
\* basePath/name + ".html", nested names such as "about/team" included:
\* distinct names map to distinct files, and a Get reads no other file than
\* the one of its name.
C24_NameResolvesToOneFile ==
    /\ \A n \in AllNames : \A m \in AllNames \ {n} :
           FilePath(config.path, n) # FilePath(config.path, m)
    /\ \A p \in Procs :
           Returned(p) =>
               /\ opened[p] \subseteq {FilePath(config.path, arg[p])}
               /\ Succeeded(p) => opened[p] = {FilePath(config.path, arg[p])}

\* C25: the function map given to NewRegistry through WithTemplateFuncs is
\* kept in the Registry's configuration and bound at every compilation Get
\* performs, so Get succeeds on a template that calls a configured function
\* ({{.Title | upper}}).
C25_ConfiguredFuncsAreBound ==
    /\ \A fm \in FuncMaps :
           options = <<WithTemplateFuncs(fm)>> => config.funcMap = fm
    /\ \A p \in Procs :
           ( /\ Returned(p)
             /\ src[p] = SrcWithFunc
             /\ "upper" \in config.funcMap ) => Succeeded(p)

(***************************************************************************)
(* Vocabulary of the properties of New.                                    *)
(***************************************************************************)
\* The base path New was asked for, and the .html files found under it.
NewBase == IF nw.opts = <<>> \/ nw.opts[1].path = "" THEN "templates"
           ELSE nw.opts[1].path
FilesUnder(base) ==
    { WalkOrder[i].path : i \in { j \in 1 .. Len(WalkOrder) :
          /\ nw.fs[WalkOrder[j].path] # NoFile
          /\ base \in WalkOrder[j].dirs } }
HtmlUnder(base) ==
    FilesUnder(base) \ {"templates/test.txt"}

\* C26: New(fs, opts) on success holds a templates map whose keys are
\* exactly the .html files found at any depth under the base path, by
\* their full paths, directories and other files being skipped; when the
\* base path does not exist or any .html file under it fails to parse, New
\* returns an error and a nil Templator.
C26_NewLoadsExactlyTheHtmlFiles ==
    nw.pc = "done" =>
        IF /\ FilesUnder(NewBase) # {}
           /\ \A f \in HtmlUnder(NewBase) : SyntaxOK(nw.fs[f])
        THEN /\ nw.res.err = NoErr
             /\ nw.res.t # "nil"
             /\ nw.res.templates = HtmlUnder(NewBase)
        ELSE /\ nw.res.err # NoErr
             /\ nw.res.t = "nil"

\* A nested template and a file that is not a template, all loaded or
\* skipped as the claim says.
C26_Witness ==
    /\ nw.pc = "done"
    /\ nw.opts = <<>>
    /\ nw.fs["templates/test.txt"] # NoFile
    /\ nw.res.err = NoErr
    /\ nw.res.templates = {"templates/nested/template2.html",
                           "templates/template1.html"}

C26_WitnessMissingBase ==
    /\ nw.pc = "done"
    /\ nw.opts = <<WithTemplatesPath("non-existent")>>
    /\ nw.fs["templates/test.html"] # NoFile
    /\ nw.res.t = "nil"
    /\ nw.res.err # NoErr

C26_WitnessParseFailure ==
    /\ nw.pc = "done"
    /\ nw.opts = <<>>
    /\ nw.fs["templates/nested/template2.html"] = SrcInvalidSyntax
    /\ nw.res.t = "nil"
    /\ nw.res.err # NoErr

\* C30: validateTemplateFields checks the extracted field paths in the
\* order of their extraction and stops at the first one that fails: the
\* ValidationError it returns names the first failing path, and the paths
\* after that one are not validated.
C30_FirstFailingPathWins ==
    vt.pc = "done" =>
        LET fields  == extractTemplateFields(vt.content)
            failing == { i \in 1 .. Len(fields) :
                           validateField(vt.typ, fields[i]) # NoErr }
        IN  IF failing = {} THEN vt.res = NoErr
            ELSE LET first == CHOOSE i \in failing : \A j \in failing : i <= j
                     cause == validateField(vt.typ, fields[first])
                 IN  IF cause.type = "panic" THEN vt.res = cause
                     ELSE /\ vt.res.type = "ValidationError"
                          /\ vt.res.TemplateName = vt.name
                          /\ vt.res.FieldPath = fields[first]
                          /\ vt.res.msg = cause.msg /\ vt.res.arg = cause.arg

\* Two failing paths, the second of which would crash the validator: the
\* error names the first, and the second has not been looked at.
C30_Witness ==
    /\ vt.pc = "done"
    /\ vt.typ = "ComplexData"
    /\ vt.content = << Field(<<"Missing">>), Field(<<"Title", ".", "Foo">>) >>
    /\ vt.res.type = "ValidationError"
    /\ vt.res.FieldPath = <<"Missing">>

\* The path of an {{if}} is extracted after the paths of the plain actions.
C30_WitnessIfComesLast ==
    /\ vt.pc = "done"
    /\ vt.typ = "ComplexData"
    /\ vt.content = << If(<<"Gone">>), Field(<<"Missing">>) >>
    /\ vt.res.FieldPath = <<"Missing">>

\* The type reached from record type t by the first n segments of parts,
\* each of them present, a pointer counted as its target.
RECURSIVE ShapeAfter(_, _, _)
ShapeAfter(t, parts, n) ==
    IF n = 0 THEN t
    ELSE Unwrap(StructFields(ShapeAfter(t, parts, n - 1))[parts[n]])

\* Every one of the first n segments of parts names a field of the record
\* reached before it.
SegmentsPresent(t, parts, n) ==
    \A k \in 1 .. n :
        /\ Kind(ShapeAfter(t, parts, k - 1)) = "struct"
        /\ parts[k] \in DOMAIN StructFields(ShapeAfter(t, parts, k - 1))

\* C31: when a segment of the path is absent, validateField fails with an
\* error naming that segment and the name of the type it was looked up in,
\* which is the type reached after unwrapping and not the root type: for
\* A.B with A present and B missing the error names B and the type of A.
C31_ErrorNamesSegmentAndShape ==
    (vf.pc = "done" /\ vf.typ # NilType /\ Kind(Unwrap(vf.typ)) = "struct") =>
        LET root  == Unwrap(vf.typ)
            parts == Split(vf.path)
        IN  \A n \in 1 .. Len(parts) :
                ( /\ SegmentsPresent(root, parts, n - 1)
                  /\ Kind(ShapeAfter(root, parts, n - 1)) = "struct"
                  /\ parts[n] \notin
                       DOMAIN StructFields(ShapeAfter(root, parts, n - 1)) )
                => /\ vf.res.type = "errorString"
                   /\ vf.res.msg = "field not found in type"
                   /\ vf.res.arg =
                        parts[n] \o " in " \o ShapeAfter(root, parts, n - 1)

\* Editor.Missing on Article: Editor is a *Person, and the error names
\* Missing and Person.
C31_Witness ==
    /\ vf.pc = "done"
    /\ vf.typ = "Article"
    /\ vf.path = <<"Editor", ".", "Missing">>
    /\ vf.res.arg = "Missing in Person"

\* A missing first segment is named with the unwrapped root type.
C31_WitnessRoot ==
    /\ vf.pc = "done"
    /\ vf.typ = "*ComplexData"
    /\ vf.path = <<"Missing">>
    /\ vf.res.arg = "Missing in ComplexData"

\* The elements of a list, and a list without a repeated element.
Elements(list) == { list[i] : i \in 1 .. Len(list) }
DuplicateFree(list) ==
    \A i, j \in 1 .. Len(list) : list[i] = list[j] => i = j

\* The paths a source refers to with {{.X}} or {{if .X}}.
References(content) ==
    { content[i].p : i \in { j \in 1 .. Len(content) :
                               content[j].k \in {"field", "if"} } }

\* C32: extractTemplateFields returns every field path that occurs in the
\* source as {{.X}} or as {{if .X}}, each distinct path once, and nothing
\* else; uniqueFields of a list has no duplicates, holds exactly the
\* distinct elements of the list, and applied to its own result returns it.
C32_ExtractionIsExactAndUnique ==
    /\ (vt.pc = "done" /\ vt.op = "extractTemplateFields") =>
           /\ Elements(vt.res) = References(vt.content)
           /\ DuplicateFree(vt.res)
    /\ (vt.pc = "done" /\ vt.op = "uniqueFields") =>
           /\ Elements(vt.res) = Elements(vt.fields)
           /\ DuplicateFree(vt.res)
    /\ (vt.pc = "redone" /\ vt.op = "uniqueFields") => vt.res = vt.fields

\* A path referred to twice directly and once in an {{if}}, beside a
\* pipeline that is no direct reference: one path comes out.
C32_Witness ==
    /\ vt.pc = "done" /\ vt.op = "extractTemplateFields"
    /\ vt.content = << Field(<<"Missing">>), If(<<"Gone">>),
                       Field(<<"Missing">>) >>
    /\ vt.res = << <<"Missing">>, <<"Gone">> >>

\* The list of TestUniqueFields with a repeat that is not adjacent.
C32_WitnessUnique ==
    /\ vt.pc = "redone" /\ vt.op = "uniqueFields"
    /\ vt.fields = <<"foo", "bar">>
    /\ vt.res = <<"foo", "bar">>

C32_WitnessNothingElse ==
    /\ vt.pc = "done" /\ vt.op = "extractTemplateFields"
    /\ vt.content = << Call(<<"Title">>, "upper"), Text("x"), End >>
    /\ vt.res = <<>>

\* A source that refers to nothing: text and {{end}} alone.
NoReference(content) ==
    \A i \in 1 .. Len(content) : content[i].k \in {"text", "end"}

\* C33: a template whose source holds no field reference yields an empty
\* list of field paths, and with field validation on, Get of such a
\* template passes the validation whenever the model is a record.
C33_NoReferencePassesValidation ==
    \A p \in Procs :
        ( /\ pc[p] \in {"got", "executed", "panicked"}
          /\ config.validateFields
          /\ Kind(Unwrap(config.validationModel)) = "struct"
          /\ src[p] # NoFile /\ NoReference(src[p]) )
        => /\ extractTemplateFields(src[p]) = <<>>
           /\ pc[p] # "panicked"
           /\ ret[p].err.type # "ValidationError"
           /\ SyntaxOK(src[p]) => Succeeded(p)

\* Text alone, validated against a Page.
C33_Witness ==
    /\ Succeeded(1)
    /\ config.validateFields /\ config.validationModel = "Page"
    /\ src[1] = << Text("x"), Text("x") >>

\* The empty file.
C33_WitnessEmptySource ==
    /\ Succeeded(1)
    /\ config.validateFields /\ config.validationModel = "*ComplexData"
    /\ src[1] = <<>>

\* The kinds of the blocks that are open before item i of a source,
\* innermost last.
RECURSIVE OpenBlocks(_, _)
OpenBlocks(content, i) ==
    IF i = 1 THEN <<>>
    ELSE LET before == OpenBlocks(content, i - 1)
             it     == content[i - 1]
         IN  IF it.k \in {"if", "range"} THEN Append(before, it.k)
             ELSE IF it.k = "end" /\ before # <<>>
             THEN SubSeq(before, 1, Len(before) - 1)
             ELSE before

\* Item i lies in the body of a loop.
InLoop(content, i) ==
    \E j \in 1 .. Len(OpenBlocks(content, i)) :
        OpenBlocks(content, i)[j] = "range"

\* The paths a source refers to outside every loop body.
RootReferences(content) ==
    { content[i].p : i \in { j \in 1 .. Len(content) :
                               /\ content[j].k \in {"field", "if"}
                               /\ ~InLoop(content, j) } }

\* C34: a field reference inside a loop body, where the data context has
\* changed, is not validated against the root shape: with validation on,
\* Get of a template whose references outside loops all resolve does not
\* fail because a name used inside {{range .Items}} ... {{end}} is absent
\* from the root shape.
C34_LoopBodyIsNotValidated ==
    \A p \in Procs :
        ( /\ Returned(p)
          /\ config.validateFields
          /\ src[p] # NoFile /\ SyntaxOK(src[p])
          /\ \A path \in RootReferences(src[p]) :
                 validateField(config.validationModel, path) = NoErr )
        => ret[p].err.type # "ValidationError"

\* Get returns nil, the engine's lookup or compile error, or a validation
\* error.
GetErrorsAreNotExecutionErrors ==
    \A p \in Procs :
        Returned(p) =>
            ret[p].err.type \in {"nil", "errorString", "ValidationError",
                                 "ErrTemplateNotFound"}

\* A Get or an Execute that returns nil had no error in any of its steps,
\* and a single Get reads and compiles once.
NothingSwallowedNothingRetried ==
    \A p \in Procs :
        /\ (Returned(p) /\ ret[p].err = NoErr) =>
               /\ src[p] # NoFile
               /\ FileErr(src[p]) = NoErr
               /\ ValidationResult(config, arg[p], src[p]) = NoErr
        /\ (OthersNeverCalled({p}) /\ calls[p] = 1) =>
               reads[arg[p]] <= 1 /\ compiles[arg[p]] <= 1
        /\ (pc[p] = "executed" /\ execErr[p] = NoErr) =>
               Render(handlers[ret[p].h].tmpl, DataOf(p)).err = NoErr

\* Execute returns nil or an ErrTemplateExecution.
ExecuteErrorsAreExecutionErrors ==
    \A p \in Procs :
        pc[p] = "executed" =>
            execErr[p].type \in {"nil", "ErrTemplateExecution"}

\* C35: error classes are tied to operations: Get returns only lookup,
\* validation or compile errors and never an ErrTemplateExecution, and
\* Execute returns only ErrTemplateExecution; every error reaches the
\* immediate caller, none is swallowed, and nothing is retried inside.
C35_ErrorClassesFollowOperations ==
    /\ GetErrorsAreNotExecutionErrors
    /\ NothingSwallowedNothingRetried
    /\ ExecuteErrorsAreExecutionErrors

\* Nobody holds the Registry's lock.
LockFree == mu.readers = 0 /\ ~mu.writer

\* Every Get that was entered ends, by returning or by a panic of the
\* validator, and the lock is free whenever no Get is in progress.
GetEndsAndUnlocks ==
    /\ \A p \in Procs : InGet(p) ~> (pc[p] \in {"got", "panicked"})
    /\ []((\A p \in Procs : ~InGet(p)) => LockFree)

\* C36: every Get call eventually returns and releases the Registry's lock
\* on every path, each error return included; under fair scheduling no set
\* of concurrent Get calls deadlocks, and once all calls have returned no
\* lock is held.
C36_EveryGetReturnsAndUnlocks ==
    /\ \A p \in Procs : InGet(p) ~> (pc[p] = "got")
    /\ []((\A p \in Procs : ~InGet(p)) => LockFree)

\* Goroutine p's Get returns in this step, with a Handler or without.
GetReturns(p) == InGet(p) /\ pc'[p] = "got"

\* C37: Get(name) changes at most what the Registry keeps for name: a
\* failed Get leaves everything the Registry has handed out unchanged, a
\* successful Get adds its own Handler and leaves all others unchanged, and
\* neither Get, Execute nor WithFuncs ever changes the configuration of
\* the Registry (base path, validation flag, validation model, function
\* map) or removes or replaces a Handler that exists.
C37_OnlyTheOwnEntryChanges ==
    [][ /\ config' = config
        /\ \A id \in HandlerIds :
               handlers[id] # NoHandler =>
                   /\ handlers'[id] # NoHandler
                   /\ handlers'[id].tmpl = handlers[id].tmpl
                   /\ handlers'[id].reg = handlers[id].reg
        /\ \A p \in Procs :
               /\ (GetReturns(p) /\ ret'[p].err # NoErr) => handlers' = handlers
               /\ (GetReturns(p) /\ ret'[p].err = NoErr) =>
                      \A id \in HandlerIds \ {ret'[p].h} :
                          handlers'[id] = handlers[id]
               /\ (pc[p] = "get_parse" /\ pc'[p] = "get_validate") =>
                      handlers' = handlers
               /\ (pc[p] = "got" /\ pc'[p] = "executed") =>
                      handlers' = handlers
               /\ wf'[p] # wf[p] =>
                      \A id \in HandlerIds \ {wf'[p].recv} :
                          handlers'[id] = handlers[id]
      ]_vars

\* A successful Get, a failed Get by the other goroutine, an Execute and a
\* WithFuncs have all happened, under a configuration that is not the
\* default one, and the Handler of the first Get is still there.
C37_Witness ==
    /\ config.path = "custom/path"
    /\ pc[1] = "executed" /\ ret[1].h = <<1, 1>>
    /\ handlers[<<1, 1>>].tmpl = SrcCustom
    /\ Returned(2) /\ ret[2].err # NoErr
    /\ wf[2] # WfIdle /\ wf[2].recv = <<1, 1>>

====
